---- MODULE Spec2Model ----
(***************************************************************************)
(* Model of apps/desktop/src-tauri/src/lib.rs: the health polling loop,    *)
(* the Mutex-guarded HealthState, the get_health command, and the          *)
(* "chat-popover" window commands (toggle_popover, hide_popover) together  *)
(* with the blur handler registered in run().                              *)
(***************************************************************************)
EXTENDS Naturals, Sequences, FiniteSets, Bags, TLC

\* ------------------------------------------------------------------ bounds

\* Number of concurrent get_health invocations.
NumReaders == 1

\* Number of popover commands in flight at once.
NumTasks == 2

\* Poll ticks explored (the loop of run() itself is unbounded).
MaxTicks == 2

Readers == 1..NumReaders

None == "none"

\* the Mutex is free, held by poll_health, or held by get_health invocation r
Free == <<"none", 0>>
Poll == <<"poll", 0>>
Reader(r) == <<"reader", r>>

\* history: not recorded
NA == "n/a"

\* ------------------------------------------------------------------ state

VARIABLES
    health,         \* AppState.health: the HealthState inside the Mutex
    lockHolder,     \* owner of the Mutex: Free, Poll or Reader(r)
    written,        \* history: poll_health has written AppState.health
    ticks,          \* history: number of poll ticks started
    pollPc,         \* position of the polling task of run()
    services,       \* poll_health local `services`
    healthy_count,  \* poll_health local `healthy_count`
    overall,        \* poll_health local `overall`
    tickLog,        \* history: side effects of the current tick, in order
    trayPresent,    \* setup_tray succeeded: tray "main-tray" exists
    trayIcon,       \* icon currently shown by the tray
    trayTooltip,    \* tooltip currently shown by the tray
    emitted,        \* payload of the last "health-update" event
    readerPc,       \* position of each get_health invocation
    readerTmp,      \* partially built clone of each get_health invocation
    ret,            \* last value returned by each get_health invocation
    probe,          \* check_port: the pending connection attempt
    probeLog,       \* history: <<port, result>> of the probes of this tick
    trayOk,         \* history: no tray update of this tick has failed
    emitOk,         \* history: app.emit of this tick has not failed
    proxy,          \* the api_proxy invocation
    popover,        \* windows registered under the label "chat-popover"
    inflight,       \* bag of the popover commands in flight
    solo,           \* history: how the only command in flight began
    batch,          \* history: the toggle_popover invocations so far
    last            \* history: the most recent popover event

healthVars == <<health, lockHolder, written, ticks, pollPc, services,
                healthy_count, overall, tickLog, trayPresent, trayIcon,
                trayTooltip, emitted, readerPc, readerTmp, ret, probe,
                probeLog, trayOk, emitOk>>
popoverVars == <<popover, inflight, solo, last, batch>>
vars == <<healthVars, popoverVars, proxy>>

\* ------------------------------------------------------------ health data

ports_reordered == << <<"Qdrant", 6333>>, <<"PostgreSQL", 5432>>,
                      <<"Context Manager", 3001>>, <<"Web UI", 3100>> >>

\* poll_health: the `ports` vector.
ports == << <<"PostgreSQL", 5432>>, <<"Qdrant", 6333>>,
            <<"Context Manager", 3001>>, <<"Web UI", 3100>> >>

ServiceHealth(name, healthy, port) ==
    [name |-> name, healthy |-> healthy, port |-> port]

DefaultHealthState_degraded ==
    [services |-> << ServiceHealth("PostgreSQL", FALSE, 5432),
                     ServiceHealth("Qdrant", FALSE, 6333),
                     ServiceHealth("Context Manager", FALSE, 3001),
                     ServiceHealth("Web UI", FALSE, 3100) >>,
     overall |-> "degraded"]

\* impl Default for HealthState
DefaultHealthState ==
    [services |-> << ServiceHealth("PostgreSQL", FALSE, 5432),
                     ServiceHealth("Qdrant", FALSE, 6333),
                     ServiceHealth("Context Manager", FALSE, 3001),
                     ServiceHealth("Web UI", FALSE, 3100) >>,
     overall |-> "down"]

ComputeOverall_offByOne(count, n) ==
    IF count = n THEN "healthy"
    ELSE IF count > 1 THEN "degraded"
    ELSE "down"

\* poll_health: `let overall = if healthy_count == ports.len() ...`
ComputeOverall(count, n) ==
    IF count = n THEN "healthy"
    ELSE IF count > 0 THEN "degraded"
    ELSE "down"

IconFor_redUnlessHealthy(o) ==
    IF o = "healthy" THEN "tray-green" ELSE "tray-red"

\* poll_health: the icon chosen by `match overall.as_str()`
IconFor(o) ==
    IF o = "healthy" THEN "tray-green"
    ELSE IF o = "degraded" THEN "tray-yellow"
    ELSE "tray-red"

\* poll_health: format!("Tulsbot - {}", overall), the dash standing for U+2014
TooltipFor(o) == <<"Tulsbot - ", o>>

MutexFree_noExclusion(holder) == TRUE

\* std::sync::Mutex::lock succeeds only while no guard is alive
MutexFree(holder) == holder = Free

\* ------------------------------------------------------------- get_health

\* get_health: state.health.lock()
get_health_lock(r) ==
    /\ readerPc[r] = "idle"
    /\ MutexFree(lockHolder)
    /\ lockHolder' = Reader(r)
    /\ readerPc' = [readerPc EXCEPT ![r] = "clone_services"]
    /\ ret' = [ret EXCEPT ![r] = <<>>]
    /\ UNCHANGED <<health, written, ticks, pollPc, services, healthy_count,
                   overall, tickLog, trayPresent, trayIcon, trayTooltip,
                   emitted, readerTmp, popoverVars,
                   probe, probeLog, trayOk, emitOk, proxy>>

\* get_health: health.clone(), field `services` (derived Clone, field order)
get_health_clone_services(r) ==
    /\ readerPc[r] = "clone_services"
    /\ readerTmp' = [readerTmp EXCEPT ![r] = health.services]
    /\ readerPc' = [readerPc EXCEPT ![r] = "clone_overall"]
    /\ UNCHANGED <<health, lockHolder, written, ticks, pollPc, services,
                   healthy_count, overall, tickLog, trayPresent, trayIcon,
                   trayTooltip, emitted, ret, popoverVars,
                   probe, probeLog, trayOk, emitOk, proxy>>

AfterClone_taken(h) == DefaultHealthState

\* get_health: what `health.clone()`, which takes &self, leaves in the Mutex
AfterClone(h) == h

\* get_health: health.clone(), field `overall`; Ok(..) is returned and the
\* guard is dropped
get_health_return(r) ==
    /\ readerPc[r] = "clone_overall"
    /\ health' = AfterClone(health)
    /\ ret' = [ret EXCEPT ![r] =
                 <<[services |-> readerTmp[r], overall |-> health.overall]>>]
    /\ readerTmp' = [readerTmp EXCEPT ![r] = <<>>]
    /\ readerPc' = [readerPc EXCEPT ![r] = "idle"]
    /\ lockHolder' = IF lockHolder = Reader(r) THEN Free ELSE lockHolder
    /\ UNCHANGED <<written, ticks, pollPc, services, healthy_count,
                   overall, tickLog, trayPresent, trayIcon, trayTooltip,
                   emitted, popoverVars,
                   probe, probeLog, trayOk, emitOk, proxy>>

get_health(r) ==
    \/ get_health_lock(r)
    \/ get_health_clone_services(r)
    \/ get_health_return(r)

\* ------------------------------------------------------------ poll_health

PollNextPc_emitBeforeStore(pc) ==
    CASE pc = "aggregate" -> "tray"
      [] pc = "tray" -> "set_icon"
      [] pc = "set_icon" -> "set_tooltip"
      [] pc = "set_tooltip" -> "emit"
      [] pc = "emit" -> "lock"
      [] pc = "lock" -> "write_services"
      [] pc = "write_services" -> "write_overall"
      [] pc = "write_overall" -> "sleep"
      [] OTHER -> "sleep"

PollNextPc_leavesLoop(pc) ==
    CASE pc = "aggregate" -> "tray"
      [] pc = "tray" -> "set_icon"
      [] pc = "set_icon" -> "set_tooltip"
      [] pc = "set_tooltip" -> "lock"
      [] pc = "lock" -> "write_services"
      [] pc = "write_services" -> "write_overall"
      [] pc = "write_overall" -> "emit"
      [] pc = "emit" -> "stopped"
      [] OTHER -> "stopped"

PollNextPc_lockAcrossTray(pc) ==
    CASE pc = "aggregate" -> "lock"
      [] pc = "lock" -> "write_services"
      [] pc = "write_services" -> "tray"
      [] pc = "tray" -> "set_icon"
      [] pc = "set_icon" -> "set_tooltip"
      [] pc = "set_tooltip" -> "write_overall"
      [] pc = "write_overall" -> "emit"
      [] pc = "emit" -> "sleep"
      [] OTHER -> "sleep"

\* poll_health: statement order after the probe loop
PollNextPc(pc) ==
    CASE pc = "aggregate" -> "tray"
      [] pc = "tray" -> "set_icon"
      [] pc = "set_icon" -> "set_tooltip"
      [] pc = "set_tooltip" -> "lock"
      [] pc = "lock" -> "write_services"
      [] pc = "write_services" -> "write_overall"
      [] pc = "write_overall" -> "emit"
      [] pc = "emit" -> "sleep"
      [] OTHER -> "sleep"

\* run: `poll_health(poll_handle.clone(), state.inner()).await` is called:
\* tick number n begins, poll_health builds `ports` and its locals
BeginTick(n) ==
    /\ ticks' = n
    /\ pollPc' = "probe"
    /\ services' = <<>>
    /\ healthy_count' = 0
    /\ overall' = None
    /\ tickLog' = <<>>
    /\ probeLog' = <<>>
    /\ trayOk' = TRUE
    /\ emitOk' = TRUE
    /\ UNCHANGED <<health, lockHolder, written, trayPresent, trayIcon,
                   trayTooltip, emitted, readerPc, readerTmp, ret, popoverVars,
                   probe, proxy>>

\* run: the initial sleep of 3 s ends, or the 5 s sleep between two ticks
\* ends; the loop calls poll_health
poll_start ==
    /\ pollPc \in {"settle", "sleep"}
    /\ ticks < MaxTicks
    /\ BeginTick(ticks + 1)

\* run: the 5 s sleep ends and `loop` goes round again, for the ticks that
\* `ticks` no longer counts
poll_again ==
    /\ pollPc = "sleep"
    /\ ticks = MaxTicks
    /\ BeginTick(ticks)

\* what the endpoint 127.0.0.1:port does with the connection attempt: it
\* accepts it, refuses it, or does not answer
Endpoint(port) == {"accept", "refuse", "silent"}

\* check_port: TcpStream::connect(..).await.is_ok()
check_port(outcome) == outcome = "accept"

\* poll_health: `check_port(*port).await` of one iteration of
\* `for (name, port) in &ports` starts the connection attempt
poll_connect ==
    /\ pollPc = "probe"
    /\ probe = None
    /\ Len(services) < Len(ports)
    /\ probe' \in Endpoint(ports[Len(services) + 1][2])
    /\ UNCHANGED <<health, lockHolder, written, ticks, pollPc, services,
                   healthy_count, overall, tickLog, trayPresent, trayIcon,
                   trayTooltip, emitted, readerPc, readerTmp, ret, popoverVars,
                   probeLog, trayOk, emitOk, proxy>>

\* check_port: time passes while the endpoint does not answer; the future
\* of TcpStream::connect is awaited without a timeout, so the attempt is
\* still pending after the time a probe is allowed
probe_overdue ==
    /\ pollPc = "probe"
    /\ probe = "silent"
    /\ probe' = "overdue"
    /\ UNCHANGED <<health, lockHolder, written, ticks, pollPc, services,
                   healthy_count, overall, tickLog, trayPresent, trayIcon,
                   trayTooltip, emitted, readerPc, readerTmp, ret, popoverVars,
                   probeLog, trayOk, emitOk, proxy>>

\* poll_health: the connection attempt ends (accepted, refused, or given up
\* by the operating system) and the iteration of `for (name, port) in
\* &ports` records the result
poll_probe ==
    /\ pollPc = "probe"
    /\ probe # None
    /\ Len(services) < Len(ports)
    /\ LET p == ports[Len(services) + 1]
           healthy == check_port(probe)
       IN /\ healthy_count' = IF healthy THEN healthy_count + 1 ELSE healthy_count
          /\ services' = Append(services, ServiceHealth(p[1], healthy, p[2]))
          /\ probeLog' = Append(probeLog, <<p[2], healthy>>)
    /\ probe' = None
    /\ pollPc' = IF Len(services) + 1 = Len(ports) THEN "aggregate" ELSE "probe"
    /\ UNCHANGED <<health, lockHolder, written, ticks, overall, tickLog,
                   trayPresent, trayIcon, trayTooltip, emitted, readerPc,
                   readerTmp, ret, popoverVars, trayOk, emitOk, proxy>>

\* poll_health: `let overall = ...`
poll_aggregate ==
    /\ pollPc = "aggregate"
    /\ overall' = ComputeOverall(healthy_count, Len(ports))
    /\ tickLog' = Append(tickLog, "aggregate")
    /\ pollPc' = PollNextPc(pollPc)
    /\ UNCHANGED <<health, lockHolder, written, ticks, services, healthy_count,
                   trayPresent, trayIcon, trayTooltip, emitted, readerPc,
                   readerTmp, ret, popoverVars,
                   probe, probeLog, trayOk, emitOk, proxy>>

\* poll_health: `if let Some(tray) = app.tray_by_id("main-tray")`
poll_tray_lookup ==
    /\ pollPc = "tray"
    /\ pollPc' = IF trayPresent THEN PollNextPc("tray") ELSE PollNextPc("set_tooltip")
    /\ UNCHANGED <<health, lockHolder, written, ticks, services, healthy_count,
                   overall, tickLog, trayPresent, trayIcon, trayTooltip, emitted,
                   readerPc, readerTmp, ret, popoverVars,
                   probe, probeLog, trayOk, emitOk, proxy>>

\* poll_health: Image::from_bytes and tray.set_icon; a failure of either is
\* discarded and leaves the icon as it was
poll_set_icon ==
    /\ pollPc = "set_icon"
    /\ \E ok \in BOOLEAN :
          /\ trayIcon' = IF ok THEN IconFor(overall) ELSE trayIcon
          /\ trayOk' = (trayOk /\ ok)
    /\ tickLog' = Append(tickLog, "icon")
    /\ pollPc' = PollNextPc(pollPc)
    /\ UNCHANGED <<health, lockHolder, written, ticks, services, healthy_count,
                   overall, trayPresent, trayTooltip, emitted, readerPc,
                   readerTmp, ret, popoverVars, probe, probeLog, emitOk,
                   proxy>>

\* poll_health: tray.set_tooltip; a failure is discarded
poll_set_tooltip ==
    /\ pollPc = "set_tooltip"
    /\ \E ok \in BOOLEAN :
          /\ trayTooltip' = IF ok THEN TooltipFor(overall) ELSE trayTooltip
          /\ trayOk' = (trayOk /\ ok)
    /\ tickLog' = Append(tickLog, "tooltip")
    /\ pollPc' = PollNextPc(pollPc)
    /\ UNCHANGED <<health, lockHolder, written, ticks, services, healthy_count,
                   overall, trayPresent, trayIcon, emitted, readerPc,
                   readerTmp, ret, popoverVars, probe, probeLog, emitOk,
                   proxy>>

\* poll_health: state.health.lock()
poll_lock ==
    /\ pollPc = "lock"
    /\ MutexFree(lockHolder)
    /\ lockHolder' = Poll
    /\ pollPc' = PollNextPc(pollPc)
    /\ UNCHANGED <<health, written, ticks, services, healthy_count, overall,
                   tickLog, trayPresent, trayIcon, trayTooltip, emitted,
                   readerPc, readerTmp, ret, popoverVars,
                   probe, probeLog, trayOk, emitOk, proxy>>

\* poll_health: `*health = new_health.clone()`, field `services`
poll_write_services ==
    /\ pollPc = "write_services"
    /\ health' = [health EXCEPT !.services = services]
    /\ written' = TRUE
    /\ pollPc' = PollNextPc(pollPc)
    /\ UNCHANGED <<lockHolder, ticks, services, healthy_count, overall, tickLog,
                   trayPresent, trayIcon, trayTooltip, emitted, readerPc,
                   readerTmp, ret, popoverVars,
                   probe, probeLog, trayOk, emitOk, proxy>>

\* poll_health: `*health = new_health.clone()`, field `overall`; the guard
\* is dropped at the end of the `if let` block
poll_write_overall ==
    /\ pollPc = "write_overall"
    /\ health' = [health EXCEPT !.overall = overall]
    /\ lockHolder' = IF lockHolder = Poll THEN Free ELSE lockHolder
    /\ tickLog' = Append(tickLog, "store")
    /\ pollPc' = PollNextPc(pollPc)
    /\ UNCHANGED <<written, ticks, services, healthy_count, overall,
                   trayPresent, trayIcon, trayTooltip, emitted, readerPc,
                   readerTmp, ret, popoverVars,
                   probe, probeLog, trayOk, emitOk, proxy>>

\* poll_health: app.emit("health-update", &new_health); poll_health returns
\* and the loop sleeps
poll_emit ==
    /\ pollPc = "emit"
    /\ emitted' = <<[services |-> services, overall |-> overall]>>
    /\ \E ok \in BOOLEAN : emitOk' = ok
    /\ tickLog' = Append(tickLog, "emit")
    /\ pollPc' = PollNextPc(pollPc)
    /\ UNCHANGED <<health, lockHolder, written, ticks, services, healthy_count,
                   overall, trayPresent, trayIcon, trayTooltip, readerPc,
                   readerTmp, ret, popoverVars,
                   probe, probeLog, trayOk, proxy>>

poll_health ==
    \/ poll_connect
    \/ probe_overdue
    \/ poll_probe
    \/ poll_aggregate
    \/ poll_tray_lookup
    \/ poll_set_icon
    \/ poll_set_tooltip
    \/ poll_lock
    \/ poll_write_services
    \/ poll_write_overall
    \/ poll_emit

\* ---------------------------------------------------------------- popover

\* State of the PopoverWindow as get_webview_window("chat-popover") and
\* is_visible() report it.
PopState(w) ==
    IF Len(w) = 0 THEN "absent"
    ELSE IF w[1].visible THEN "visible" ELSE "hidden"

\* run: a popover window that exists at setup gets the on_window_event
\* handler that hides it on Focused(false)
SetupWindow(v) == [visible |-> v, blur |-> TRUE, pos |-> "config"]

BuiltWindow_hidden == [visible |-> FALSE, blur |-> FALSE, pos |-> "default"]

\* toggle_popover: the window built by the fallback branch, .visible(true);
\* no on_window_event handler is registered for it
BuiltWindow == [visible |-> TRUE, blur |-> FALSE, pos |-> "default"]

LabelTaken_never(w) == FALSE

\* WebviewWindowBuilder::build: a label that is already registered is
\* refused with an error
LabelTaken(w) == Len(w) > 0

Propagates_everything(step) == TRUE

\* toggle_popover, hide_popover: the platform calls whose error leaves the
\* command through `.map_err(|e| e.to_string())?`; the others are discarded
\* (`let _ =`, `if let Ok(..)`, `unwrap_or(false)`)
Propagates(step) == step \in {"hide", "show", "set_focus", "build"}

ToggleBranch_inverted(visible) == IF visible THEN "set_position" ELSE "hide"

\* toggle_popover: `if window.is_visible().unwrap_or(false)`
ToggleBranch(visible) == IF visible THEN "hide" ELSE "set_position"

AfterLookup_hideCreates(op, found) ==
    IF op = "toggle_popover"
    THEN (IF found THEN "is_visible" ELSE "build")
    ELSE (IF found THEN "hide" ELSE "build")

\* toggle_popover, hide_popover: `if let Some(window) =
\* app.get_webview_window("chat-popover")` and its else branch
AfterLookup(op, found) ==
    IF op = "toggle_popover"
    THEN (IF found THEN "is_visible" ELSE "build")
    ELSE (IF found THEN "hide" ELSE "return")

One(c) == SetToBag({c})

Hidden_destroyed(w, i) ==
    [j \in 1..(Len(w) - 1) |-> IF j < i THEN w[j] ELSE w[j + 1]]

\* window.hide(): the window i stays registered and is no longer visible
Hidden(w, i) == [w EXCEPT ![i].visible = FALSE]

\* history: not only toggle_popover invocations without a failing platform
\* call have happened
Mixed == [pre |-> NA, k |-> 0, clean |-> FALSE]

\* history: one more toggle_popover is invoked; k is 0, 1 for an odd number
\* and 2 for an even number of invocations
Counted(b) == IF b.clean THEN [b EXCEPT !.k = IF @ = 2 THEN 1 ELSE @ + 1]
              ELSE Mixed

\* history: the record of an event that began in state `pre` (NA unless it
\* ran with no other command in flight and no focus event in between),
\* right after a toggle_popover that began in state `after` (NA unless that
\* toggle ran alone and without a failing platform call)
Event(op, res, w, failed, pre, after) ==
    [op |-> op, res |-> res, fails |-> failed, pre |-> pre,
     post |-> IF pre = NA THEN NA ELSE PopState(w),
     n |-> IF pre = NA THEN 0 ELSE Len(w), after |-> after]

\* history: the state a toggle_popover began in when it is the last event
\* and ran alone without a failing platform call
CleanToggle(e) ==
    IF e.op = "toggle_popover" /\ e.fails = {} THEN e.pre ELSE NA

\* the command c returns `res`
Return(c, res, w, failed) ==
    /\ popover' = w
    /\ inflight' = inflight (-) One(c)
    /\ last' = Event(c.op, res, w, c.fails \cup failed, solo.pre, solo.after)
    /\ solo' = [pre |-> NA, after |-> NA]
    /\ batch' = IF failed = {} THEN batch ELSE Mixed

\* the command c goes on to `pc`
Continue(c, pc, w, failed) ==
    /\ popover' = w
    /\ inflight' = (inflight (-) One(c))
                   (+) One([c EXCEPT !.pc = pc, !.fails = @ \cup failed])
    /\ batch' = IF failed = {} THEN batch ELSE Mixed
    /\ UNCHANGED <<last, solo>>

\* one platform call of the command c: on success the windows become w and
\* the command goes on to `pc` (or returns Ok when pc is "return"); a
\* failure leaves the windows alone and either leaves the command with Err
\* or is discarded
PlatformCall(c, step, ok, w, pc) ==
    IF ok
    THEN IF pc = "return" THEN Return(c, "Ok", w, {})
         ELSE Continue(c, pc, w, {})
    ELSE IF Propagates(step) THEN Return(c, "Err", popover, {step})
         ELSE IF pc = "return" THEN Return(c, "Ok", popover, {step})
         ELSE Continue(c, pc, popover, {step})

\* a command is invoked (tauri::command, or the spawn of the tray click
\* handler of setup_tray) and looks the window up
Invoke(op) ==
    /\ BagCardinality(inflight) < NumTasks
    /\ LET alone == inflight = EmptyBag
           pre == IF alone THEN PopState(popover) ELSE NA
           after == IF alone THEN CleanToggle(last) ELSE NA
           pc == AfterLookup(op, Len(popover) > 0)
       IN IF pc = "return"
          THEN /\ last' = Event(op, "Ok", popover, {}, PopState(popover), after)
               /\ solo' = [pre |-> NA, after |-> NA]
               /\ inflight' = inflight
          ELSE /\ inflight' = inflight (+) One([op |-> op, pc |-> pc, fails |-> {}])
               /\ solo' = [pre |-> pre, after |-> after]
               /\ last' = last
    /\ batch' = IF op = "toggle_popover" THEN Counted(batch) ELSE Mixed
    /\ UNCHANGED <<popover, healthVars, proxy>>

At(c, op, pc) == c.pc = pc /\ c.op = op

\* toggle_popover: app.get_webview_window("chat-popover")
toggle_popover_lookup == Invoke("toggle_popover")

\* toggle_popover: window.is_visible().unwrap_or(false)
toggle_popover_is_visible ==
    /\ \E c \in BagToSet(inflight), ok \in BOOLEAN :
          /\ At(c, "toggle_popover", "is_visible")
          /\ PlatformCall(c, "is_visible", ok, popover,
                          ToggleBranch(IF ok THEN popover[1].visible ELSE FALSE))
    /\ UNCHANGED <<healthVars, proxy>>

\* toggle_popover: window.hide()
toggle_popover_hide ==
    /\ \E c \in BagToSet(inflight), ok \in BOOLEAN :
          /\ At(c, "toggle_popover", "hide")
          /\ PlatformCall(c, "hide", ok,
                          Hidden(popover, 1), "return")
    /\ UNCHANGED <<healthVars, proxy>>

\* toggle_popover: primary_monitor() and window.set_position(..)
toggle_popover_set_position ==
    /\ \E c \in BagToSet(inflight), ok \in BOOLEAN :
          /\ At(c, "toggle_popover", "set_position")
          /\ PlatformCall(c, "set_position", ok,
                          [popover EXCEPT ![1].pos = "top-right"], "show")
    /\ UNCHANGED <<healthVars, proxy>>

\* toggle_popover: window.show()
toggle_popover_show ==
    /\ \E c \in BagToSet(inflight), ok \in BOOLEAN :
          /\ At(c, "toggle_popover", "show")
          /\ PlatformCall(c, "show", ok,
                          [popover EXCEPT ![1].visible = TRUE], "set_focus")
    /\ UNCHANGED <<healthVars, proxy>>

\* toggle_popover: window.set_focus()
toggle_popover_set_focus ==
    /\ \E c \in BagToSet(inflight), ok \in BOOLEAN :
          /\ At(c, "toggle_popover", "set_focus")
          /\ PlatformCall(c, "set_focus", ok, popover, "return")
    /\ UNCHANGED <<healthVars, proxy>>

\* toggle_popover: WebviewWindowBuilder::new(..).build()
toggle_popover_build ==
    /\ \E c \in BagToSet(inflight), ok \in BOOLEAN :
          /\ c.pc = "build"
          /\ PlatformCall(c, "build", ok /\ ~LabelTaken(popover),
                          Append(popover, BuiltWindow), "return")
    /\ UNCHANGED <<healthVars, proxy>>

toggle_popover ==
    \/ toggle_popover_lookup
    \/ toggle_popover_is_visible
    \/ toggle_popover_hide
    \/ toggle_popover_set_position
    \/ toggle_popover_show
    \/ toggle_popover_set_focus
    \/ toggle_popover_build

\* hide_popover: app.get_webview_window("chat-popover")
hide_popover_lookup == Invoke("hide_popover")

\* hide_popover: window.hide()
hide_popover_hide ==
    /\ \E c \in BagToSet(inflight), ok \in BOOLEAN :
          /\ At(c, "hide_popover", "hide")
          /\ PlatformCall(c, "hide", ok,
                          Hidden(popover, 1), "return")
    /\ UNCHANGED <<healthVars, proxy>>

hide_popover ==
    \/ hide_popover_lookup
    \/ hide_popover_hide

\* run: the window event Focused(false) arrives at a popover window; the
\* handler, where one is registered, calls popover_clone.hide() and
\* discards its result
focus_lost ==
    /\ Len(popover) > 0
    /\ \E i \in 1..Len(popover), ok \in BOOLEAN :
          LET handled == popover[i].blur
              w == IF handled /\ ok
                   THEN Hidden(popover, i)
                   ELSE popover
          IN /\ popover' = w
             /\ last' = [Event("focus_lost", "Ok", w,
                               IF handled /\ ~ok THEN {"hide"} ELSE {},
                               PopState(popover), NA)
                         EXCEPT !.post = PopState(w), !.n = Len(w)]
    /\ solo' = [pre |-> NA, after |-> NA]
    /\ batch' = Mixed
    /\ UNCHANGED <<inflight, healthVars, proxy>>

\* -------------------------------------------------------------- api_proxy

\* the `method` arguments tried
Methods == {"GET", "get", "Post", "PUT", "DELETE", "patch", "HEAD", "trace"}

\* the `body` arguments tried: None, Some(json)
Bodies == {<<>>, <<"{\"q\":1}">>}

\* the status codes the upstream answers with
Statuses == {200, 204, 304, 399, 400, 404, 500}

\* the response bodies the upstream answers with
Texts == {"", "ok", "not found"}

\* api_proxy: method.to_uppercase()
to_uppercase(m) ==
    CASE m = "get" -> "GET"
      [] m = "Post" -> "POST"
      [] m = "patch" -> "PATCH"
      [] m = "trace" -> "TRACE"
      [] OTHER -> m

\* api_proxy: the arms of `match method.to_uppercase().as_str()` that give a
\* reqwest::Method
Supported(m) == m \in {"GET", "POST", "PUT", "DELETE", "PATCH"}

IsErrorStatus_above400(status) == status > 400

\* api_proxy: `if status >= 400`
IsErrorStatus(status) == status >= 400

\* Result<String, String>; a formatted string is the sequence of its parts
Ok(text) == <<[ok |-> TRUE, msg |-> <<text>>]>>
Err(parts) == <<[ok |-> FALSE, msg |-> parts]>>

\* api_proxy: the values of an invocation that has returned stay readable
\* in `proxy` until the next invocation
ProxyReturn(result) == proxy' = [proxy EXCEPT !.pc = "idle", !.result = result]

\* api_proxy is invoked; the method is matched and the request is built,
\* with the 60 s timeout and, for Some(body), the JSON header and the body
api_proxy_build ==
    /\ proxy.pc = "idle"
    /\ \E method \in Methods, body \in Bodies :
          LET fresh == [pc |-> "send", method |-> to_uppercase(method),
                        body |-> body, status |-> 0, text |-> <<>>,
                        result |-> <<>>]
          IN  IF Supported(fresh.method)
              THEN proxy' = fresh
              ELSE proxy' = [fresh EXCEPT
                                !.pc = "idle",
                                !.result = Err(<<"Unsupported HTTP method: ",
                                                 fresh.method>>)]
    /\ UNCHANGED <<healthVars, popoverVars>>

\* api_proxy: builder.send().await; an error (no connection, 60 s timeout)
\* is returned as "Request failed: ..", otherwise the status is there
api_proxy_send ==
    /\ proxy.pc = "send"
    /\ \/ ProxyReturn(Err(<<"Request failed: ", "error sending request">>))
       \/ \E status \in Statuses :
             proxy' = [proxy EXCEPT !.pc = "text", !.status = status]
    /\ UNCHANGED <<healthVars, popoverVars>>

\* api_proxy: resp.text().await; an error while the body is read is
\* returned as its own text
api_proxy_text ==
    /\ proxy.pc = "text"
    /\ \/ ProxyReturn(Err(<<"error decoding response body">>))
       \/ \E text \in Texts :
             proxy' = [proxy EXCEPT !.pc = "check", !.text = <<text>>]
    /\ UNCHANGED <<healthVars, popoverVars>>

\* api_proxy: `if status >= 400 { return Err(..) } Ok(text)`
api_proxy_return ==
    /\ proxy.pc = "check"
    /\ IF IsErrorStatus(proxy.status)
       THEN ProxyReturn(Err(<<"HTTP ", ToString(proxy.status), ": ",
                              proxy.text[1]>>))
       ELSE ProxyReturn(Ok(proxy.text[1]))
    /\ UNCHANGED <<healthVars, popoverVars>>

api_proxy ==
    \/ api_proxy_build
    \/ api_proxy_send
    \/ api_proxy_text
    \/ api_proxy_return

\* ------------------------------------------------------------------- init

InitHealth ==
    /\ health = DefaultHealthState
    /\ lockHolder = Free
    /\ written = FALSE
    /\ ticks = 0
    /\ pollPc = "settle"
    /\ services = <<>>
    /\ healthy_count = 0
    /\ overall = None
    /\ tickLog = <<>>
    /\ trayPresent \in BOOLEAN
    /\ trayIcon = "tray-icon"
    /\ trayTooltip = <<"Tulsbot">>
    /\ emitted = <<>>
    /\ readerPc = [r \in Readers |-> "idle"]
    /\ readerTmp = [r \in Readers |-> <<>>]
    /\ ret = [r \in Readers |-> <<>>]
    /\ probe = None
    /\ probeLog = <<>>
    /\ trayOk = TRUE
    /\ emitOk = TRUE

\* run: the state after setup; the popover window of the application's
\* window configuration, when there is one, has the blur handler
InitPopover ==
    /\ popover \in {<<>>} \cup {<<SetupWindow(v)>> : v \in BOOLEAN}
    /\ inflight = EmptyBag
    /\ solo = [pre |-> NA, after |-> NA]
    /\ last = Event("setup", "Ok", popover, {}, PopState(popover), NA)
    /\ batch = [pre |-> PopState(popover), k |-> 0, clean |-> TRUE]

\* api_proxy has not been invoked
InitProxy ==
    proxy = [pc |-> "idle", method |-> "", body |-> <<>>, status |-> 0,
             text |-> <<>>, result |-> <<>>]

\* the health side with the popover left alone
InitH ==
    /\ InitHealth
    /\ InitPopover
    /\ InitProxy
    /\ popover = <<>>

\* the popover side with the polling task still in its initial delay
InitP ==
    /\ InitHealth
    /\ InitPopover
    /\ InitProxy
    /\ trayPresent

NextHealth ==
    \/ poll_start
    \/ poll_health
    \/ \E r \in Readers : get_health(r)

SpecHealth == InitH /\ [][NextHealth]_vars

\* the polling task with its loop unbounded, and one get_health caller
NextLive ==
    \/ poll_start
    \/ poll_again
    \/ poll_health
    \/ get_health(1)

\* the steps of the polling task that nothing can hold up: sleeps end, the
\* straight-line code of poll_health runs on, and a pending connection
\* attempt ends (at the latest when the operating system gives it up)
PollStep ==
    \/ poll_start
    \/ poll_again
    \/ poll_connect
    \/ poll_probe
    \/ poll_aggregate
    \/ poll_tray_lookup
    \/ poll_set_icon
    \/ poll_set_tooltip
    \/ poll_write_services
    \/ poll_write_overall
    \/ poll_emit

\* get_health holds the guard over straight-line code only
ReaderStep == get_health_clone_services(1) \/ get_health_return(1)

\* the async runtime keeps running the polling task; a lock() that finds
\* the Mutex free again and again is eventually served
SpecLive ==
    /\ InitH
    /\ [][NextLive]_vars
    /\ WF_vars(PollStep)
    /\ WF_vars(ReaderStep)
    /\ SF_vars(poll_lock)

\* the api_proxy command alone
SpecProxy == InitH /\ [][api_proxy]_vars

NextPopover ==
    \/ toggle_popover
    \/ hide_popover
    \/ focus_lost

SpecPopover == InitP /\ [][NextPopover]_vars

\* ------------------------------------------------------------- properties

\* The aggregation rule of the specification, stated on the services alone.
Rule(svcs) ==
    IF \A i \in 1..Len(svcs) : svcs[i].healthy THEN "healthy"
    ELSE IF \A i \in 1..Len(svcs) : ~svcs[i].healthy THEN "down"
    ELSE "degraded"

Consistent(snapshot) == snapshot.overall = Rule(snapshot.services)

\* C1: for every combination of the four probe results of a tick, the
\* overall computed by poll_health is "healthy" iff all four probes
\* succeeded, "down" iff all four failed, and "degraded" otherwise.
C1_OverallRule ==
    overall # None =>
        /\ Len(services) = Len(ports)
        /\ overall = "healthy" <=> \A i \in 1..Len(ports) : services[i].healthy
        /\ overall = "down" <=> \A i \in 1..Len(ports) : ~services[i].healthy
        /\ overall = "degraded" <=>
              /\ \E i \in 1..Len(ports) : services[i].healthy
              /\ \E i \in 1..Len(ports) : ~services[i].healthy

\* C1 witness: the probe results [T, F, T, T] were aggregated.
C1_Witness ==
    /\ overall = "degraded"
    /\ [i \in 1..Len(services) |-> services[i].healthy]
         = <<TRUE, FALSE, TRUE, TRUE>>

\* C2: the snapshot in the Mutex (whenever poll_health is not in the middle
\* of replacing it under the lock) and every snapshot get_health returned
\* pair an overall with the services it was computed from.
C2_SnapshotConsistent ==
    /\ pollPc # "write_overall" => Consistent(health)
    /\ \A r \in Readers : ret[r] # <<>> => Consistent(ret[r][1])

\* C2 witness: poll_health is halfway through replacing the snapshot of an
\* earlier tick, the stored fields disagree, and a get_health that returned
\* the earlier snapshot is about to be invoked again.
C2_Witness ==
    /\ pollPc = "write_overall"
    /\ ~Consistent(health)
    /\ ticks = 2
    /\ \E r \in Readers :
          /\ readerPc[r] = "idle"
          /\ ret[r] # <<>>
          /\ ret[r][1].services # health.services
          /\ ret[r][1].overall = health.overall

\* C3: a get_health that returns before poll_health has written the Mutex
\* returns overall "down" and four services that are all unhealthy.
C3_DefaultBeforeFirstWrite ==
    \A r \in Readers :
        (ret[r] # <<>> /\ ~written) =>
            /\ ret[r][1].overall = "down"
            /\ Len(ret[r][1].services) = 4
            /\ \A i \in 1..4 : ~ret[r][1].services[i].healthy

\* C3 witness: get_health returned while the first tick had probed four
\* healthy services and was about to take the lock.
C3_Witness ==
    /\ ~written
    /\ pollPc = "lock"
    /\ overall = "healthy"
    /\ \E r \in Readers : ret[r] # <<>> /\ readerPc[r] = "idle"

SecondToggleFrom(state) ==
    /\ last.op = "toggle_popover"
    /\ last.pre # NA
    /\ last.fails = {}
    /\ last.after = state

\* C5 as stated: after two toggle_popover calls in succession from absent
\* exactly one popover window exists and it is visible.
C5_Original ==
    SecondToggleFrom("absent") => last.n = 1 /\ last.post = "visible"

\* C5 amended: two toggle_popover calls in succession from absent, the
\* second starting after the first returned and no platform call failing,
\* leave exactly one popover window, and it is hidden: the first call
\* builds it visible and the second hides it.
C5_TwoTogglesFromAbsent ==
    SecondToggleFrom("absent") =>
        /\ last.n = 1
        /\ last.pre = "visible"
        /\ last.post = "hidden"

\* C5 witness: the second of two such calls has returned.
C5_Witness == SecondToggleFrom("absent") /\ last.post = "hidden"

\* C6: from hidden, a toggle_popover makes the popover visible and the next
\* toggle_popover makes it hidden again (platform calls succeeding and
\* nothing else happening in between), and the window stays registered
\* throughout.
C6_ToggleTwiceFromHidden ==
    /\ (last.op = "toggle_popover" /\ last.fails = {} /\ last.pre = "hidden")
          => last.post = "visible"
    /\ SecondToggleFrom("hidden") =>
          last.pre = "visible" /\ last.post = "hidden"
    /\ solo.pre = "hidden" => PopState(popover) \in {"hidden", "visible"}
    /\ solo.after = "hidden" => PopState(popover) \in {"hidden", "visible"}

\* C6 witness: the second toggle_popover of such a pair has returned.
C6_Witness == SecondToggleFrom("hidden") /\ last.post = "hidden"

\* C7 as stated: a focus-loss event at a visible popover hides it, however
\* the window came to exist, and a focus-loss event at a hidden popover
\* leaves it hidden (the handler's hide() succeeding).
C7_FocusLossHides ==
    (last.op = "focus_lost" /\ last.fails = {}) =>
        /\ last.pre = "visible" => last.post = "hidden"
        /\ last.pre = "hidden" => last.post = "hidden"

\* C8: hide_popover on an absent popover returns Ok and builds nothing; on
\* a hidden popover it leaves the popover hidden and returns Ok (the
\* platform's hide() succeeding).
C8_HideAbsentOrHidden ==
    last.op = "hide_popover" =>
        /\ last.pre = "absent" =>
              /\ last.res = "Ok"
              /\ last.post = "absent"
              /\ last.n = 0
        /\ last.pre = "hidden" =>
              /\ last.post = "hidden"
              /\ last.fails = {} => last.res = "Ok"

\* C8 witness: hide_popover returned Ok on an absent popover while a
\* toggle_popover was in flight.
C8_Witness ==
    /\ last.op = "hide_popover"
    /\ last.pre = "absent"
    /\ last.res = "Ok"
    /\ Len(popover) = 0
    /\ inflight # EmptyBag

Index(q, x) ==
    IF \E i \in 1..Len(q) : q[i] = x
    THEN CHOOSE i \in 1..Len(q) : q[i] = x /\ \A j \in 1..(i - 1) : q[j] # x
    ELSE 0

IsPrefix(p, q) ==
    /\ Len(p) <= Len(q)
    /\ \A i \in 1..Len(p) : p[i] = q[i]

C11_LoopNeverStops ==
    /\ []<>(pollPc = "probe" /\ probeLog = <<>>)
    /\ []<>(pollPc = "sleep")

\* C11 witness: a later tick begins after a tick in which every probe
\* failed, a tray update failed and the event was not delivered.
C11_Witness ==
    /\ ticks = MaxTicks
    /\ pollPc = "sleep"
    /\ ENABLED poll_again
    /\ health.overall = "down"
    /\ emitted = <<health>>
    /\ ~trayOk
    /\ ~emitOk

\* C12 as stated: a probe of an endpoint that does not answer has ended,
\* with false, by the time a probe is allowed: no connection attempt is
\* still pending after that time.
C12_ProbeEndsInTime == probe # "overdue"

\* the polling task is inside `if let Ok(mut health) = state.health.lock()`
StoreWrite == pollPc \in {"write_services", "write_overall"}

\* some get_health invocation holds the guard
ReaderHolds == \E q \in Readers : lockHolder = Reader(q)

\* C13 as stated: at any point of a tick a get_health that is issued can
\* take the lock without the polling task making a step.
C13_Original ==
    \A r \in Readers :
        (readerPc[r] = "idle" /\ ~ReaderHolds) => ENABLED get_health_lock(r)

\* C13: the polling task holds the Health Store lock only inside the store
\* write at the end of a tick, never while a probe is in flight, the
\* indicator is updated, the event is emitted or the loop sleeps; outside
\* the store write a get_health that is issued takes the lock and runs to
\* its return without any step of the polling task, and what it returns is
\* the snapshot in the store, the last one written.
C13_NeverWaitsForTick ==
    /\ [](lockHolder = Poll => StoreWrite)
    /\ [](\A r \in Readers :
            (readerPc[r] = "idle" /\ ~ReaderHolds /\ ~StoreWrite)
                => ENABLED get_health_lock(r))
    /\ [](\A r \in Readers : readerPc[r] # "idle" => ENABLED get_health(r))
    /\ [][\A r \in Readers :
            (readerPc[r] = "clone_overall" /\ readerPc'[r] = "idle")
                => ret'[r] = <<health>>]_vars

\* C13 witness: get_health is returning a snapshot that a tick wrote while
\* the next tick waits on a probe that does not answer.
C13_Witness ==
    /\ pollPc = "probe"
    /\ probe = "overdue"
    /\ readerPc[1] = "clone_overall"
    /\ lockHolder = Reader(1)
    /\ written
    /\ readerTmp[1] = health.services

\* the formatted string `msg` contains the string `x`
Contains(msg, x) == \E i \in DOMAIN msg : msg[i] = x

\* api_proxy has returned after it had received a status
Answered == proxy.pc = "idle" /\ proxy.status # 0

\* what C14 says api_proxy returns for a status and a body text
ByStatus(status, text, result) ==
    IF status >= 400
    THEN /\ ~result.ok
         /\ Contains(result.msg, ToString(status))
         /\ Contains(result.msg, text)
    ELSE result = Ok(text)[1]

\* C14 as stated: for every response status, api_proxy returns an error
\* with the status code and the body text when the status is >= 400, and
\* the body as success when it is < 400.
C14_Original ==
    Answered =>
        /\ proxy.text # <<>>
        /\ ByStatus(proxy.status, proxy.text[1], proxy.result[1])

\* C14: when the response body has been read, api_proxy returns an error
\* with the status code and the body text for a status >= 400 and the body
\* as success for a status < 400; when reading the body fails it returns
\* that read error alone, without the status code, whatever the status.
C14_StatusDecidesResult ==
    Answered =>
        IF proxy.text # <<>>
        THEN ByStatus(proxy.status, proxy.text[1], proxy.result[1])
        ELSE /\ ~proxy.result[1].ok
             /\ ~Contains(proxy.result[1].msg, ToString(proxy.status))

\* C14 witness: a 404 with its body has come back as an error.
C14_Witness ==
    /\ Answered
    /\ proxy.status = 404
    /\ proxy.text = <<"not found">>
    /\ proxy.result = Err(<<"HTTP ", "404", ": ", "not found">>)

\* the state k toggle_popover calls, run one after another from the state
\* `pre`, end in (k is 0, 1 for an odd and 2 for an even number)
Sequential(pre, k) ==
    CASE k = 0 -> pre
      [] k = 1 -> IF pre = "visible" THEN "hidden" ELSE "visible"
      [] OTHER -> IF pre = "visible" THEN "visible" ELSE "hidden"

\* C15 as stated: when only toggle_popover invocations have run, none with
\* a failing platform call, and all of them have returned, the popover is
\* in the state that as many toggles run one after another end in.
C15_TogglesSerializable ==
    (inflight = EmptyBag /\ batch.clean)
        => PopState(popover) = Sequential(batch.pre, batch.k)

\* C16: no step takes a popover window that exists back to absent: the
\* windows registered under the label are never fewer than before.
C16_NeverBackToAbsent == [][Len(popover') >= Len(popover)]_vars

\* C16 witness: toggle_popover, hide_popover or the focus handler has
\* hidden a popover, which is still there.
C16_Witness ==
    /\ last.op \in {"toggle_popover", "hide_popover", "focus_lost"}
    /\ last.pre = "visible"
    /\ last.post = "hidden"
    /\ last.n = 1
    /\ Len(popover) = 1

Probed == [i \in 1..Len(probeLog) |-> probeLog[i][2]]

\* this tick has replaced the services of the store
Stored == pollPc \in {"write_overall", "emit", "sleep"}

\* C18: the services of the Health Store are always the four endpoints of
\* the initial snapshot, same names and ports in the same order
\* (PostgreSQL 5432, Qdrant 6333, Context Manager 3001, Web UI 3100); a tick
\* probes the endpoints in that order, each once, and the healthy flags it
\* stores are the results of these probes.
C18_OneEntryPerEndpoint ==
    /\ Len(health.services) = 4
    /\ \A i \in 1..4 :
          /\ health.services[i].name = DefaultHealthState.services[i].name
          /\ health.services[i].port = DefaultHealthState.services[i].port
    /\ <<health.services[1].port, health.services[2].port,
         health.services[3].port, health.services[4].port>>
           = <<5432, 6333, 3001, 3100>>
    /\ Len(probeLog) <= 4
    /\ \A i \in 1..Len(probeLog) :
          probeLog[i][1] = DefaultHealthState.services[i].port
    /\ pollPc \notin {"settle", "probe"} => Len(probeLog) = 4
    /\ Stored => \A i \in 1..4 : health.services[i].healthy = Probed[i]

\* C18 witness: the second tick has stored the results of its four probes,
\* which differ from endpoint to endpoint.
C18_Witness ==
    /\ ticks = 2
    /\ pollPc = "emit"
    /\ Probed = <<FALSE, TRUE, TRUE, FALSE>>
    /\ [i \in 1..4 |-> health.services[i].healthy] = Probed

\* the overall an icon of the tray stands for
IconMeaning(icon) ==
    CASE icon = "tray-green" -> "healthy"
      [] icon = "tray-yellow" -> "degraded"
      [] icon = "tray-red" -> "down"
      [] OTHER -> NA

\* the tray shows the overall o, by its icon and by its tooltip
TrayShows(o) == IconMeaning(trayIcon) = o /\ trayTooltip = <<"Tulsbot - ", o>>

\* C19 as stated: while the loop sleeps after a tick, the tray indicator,
\* the stored snapshot and the payload of the tick's event agree.
C19_Original ==
    pollPc = "sleep" => (emitted = <<health>> /\ TrayShows(health.overall))

\* C19: while the loop sleeps after a tick, the stored snapshot and the
\* payload the tick handed to emit are the same snapshot, and the tray
\* indicator shows that snapshot's overall provided the tray exists and no
\* indicator update of the tick failed.
C19_OutputsAgree ==
    pollPc = "sleep" =>
        /\ emitted = <<health>>
        /\ Consistent(health)
        /\ (trayPresent /\ trayOk) => TrayShows(health.overall)

\* C19 witness: the loop sleeps after a tick that found the services
\* degraded, and icon, tooltip, store and event all say so.
C19_Witness ==
    /\ pollPc = "sleep"
    /\ trayPresent
    /\ trayOk
    /\ emitOk
    /\ health.overall = "degraded"
    /\ trayIcon = "tray-yellow"
    /\ trayTooltip = <<"Tulsbot - ", "degraded">>
    /\ emitted = <<health>>

====
